---- MODULE Spec2Model ----
(***************************************************************************)
(* Model of the voice-chat session orchestrator of vocaliq-voice-agent     *)
(* (backend/api/routes/voice_chat.py) and of the ElevenLabs synthesis      *)
(* cache (backend/api/services/elevenlabs_service.py).                     *)
(*                                                                         *)
(* One VoiceChatSession is modelled together with the asyncio tasks that   *)
(* act on it: the websocket receive loop, the debounce task, the tasks a   *)
(* `force` message creates, and every invocation of                        *)
(* process_buffered_audio.  A step of the model is the code a task runs    *)
(* between two suspension points (await), which asyncio runs atomically.   *)
(* Time is digitised: Tick is the passing of a boundary of a grid of       *)
(* TickMs milliseconds, events between two boundaries are ordered but not  *)
(* timed.  A sleep of d ms started anywhere in a grid cell ends after      *)
(* d / TickMs boundaries, rounded down or up, so a timer carries the       *)
(* fewest (lo) and the most (hi) boundaries it still has to see.  A send   *)
(* on the websocket suspends the sending task, and completes before the    *)
(* next grid boundary; a call to a provider takes any time.                *)
(* The caller sends a bounded number of audio frames and `force` messages, *)
(* and sends no `force` while the task an earlier one of the same kind     *)
(* created (delayed_force_process or force_process_after_idle) still runs. *)
(* asyncio is the one of Python 3.8 and later: CancelledError is not an    *)
(* Exception.                                                              *)
(* The session runs with use_eleven_conv = False (CONVAI_HARD_OFF defaults *)
(* to "1"), SILERO_AVAILABLE = False and ECHO_MODE unset.                  *)
(* Buffers stay below the 40000 bytes at which process_audio_chunk sends  *)
(* a backchannel sound.                                                    *)
(***************************************************************************)
EXTENDS Integers, Sequences, FiniteSets, TLC

\* ------------------------------------------------------------------ bounds
\* Audio frames the caller sends in one session.
MaxFrames == 2
\* `force` messages the caller sends in one session.
MaxForces == 2
\* Turns of a caller who speaks and forces one turn at a time.
MaxTurns == 3
\* Longest conversation history the model follows.
MaxHistory == 4
\* Sessions that ask for the synthesis of the same phrase.
MaxSessions == 2
\* Synthesis requests each of them makes.
MaxRequests == 1
\* Calls to the provider the model follows.
MaxCalls == 3
\* Longest transcript a provider returns, in characters.
MaxText == 3
\* Entries of the conversation history the model follows over many turns.
MaxEntries == 22
\* Frames given to one voice-activity detector.
MaxVadFrames == 7
\* Frames given to one turn-taking manager.
MaxTurnFrames == 5
\* Websocket connections made to /ws/{session_id}.
MaxConns == 3
\* Calls of process_audio the model follows.
MaxPipelineCalls == 4


\* ------------------------------------------------------ program constants
\* debounce_ms
DebounceMs == 600
\* hard maximum turn duration: (time.time() - speech_start_time) >= 3.0
HardMaxMs == 3000
\* delayed_force_process(0.25)
ForceDelayMs == 250
\* force_process_after_idle(1.0)
ForceMaxWaitMs == 1000
\* asyncio.sleep(0.2) after a fallback utterance
FallbackGuardMs == 200
\* asyncio.sleep(0.3) after a reply
ReplyGuardMs == 300
\* min_bytes_trigger
MinBytesTrigger == 2000
\* len(combined_audio) < 1_200
MinCombinedBytes == 1200
\* combined_audio[100:min(1000, len)]: the sample starts at byte 100
SampleStart == 100
\* unique_bytes < 50
MinUniqueBytes == 50
\* failed_transcription_count >= 3
MaxFailedTranscriptions == 3
\* stop_after_attempt(3) on ElevenLabsService.synthesize_speech
MaxAttempts == 3

\* self.conversation_history[-20:]
HistoryWindow == 20

\* VoiceActivityDetector.__init__: frame_duration_ms
FrameDurationMs == 30

\* TurnTakingManager.__init__: min_turn_duration_ms, max_pause_ms,
\* interruption_threshold_ms
MinTurnDurationMs == 500
MaxPauseMs == 1000
InterruptionThresholdMs == 200
\* `len(session["audio_buffer"]) >= 16000`
PipelineMinBytes == 16000

\* Width of the time grid in milliseconds: half the debounce period.
TickMs == DebounceMs \div 2

\* ------------------------------------------------------------------ inputs
\* Sizes in bytes of the audio chunks the caller sends.
ChunkSizes == {1, 1999}
SlotKeys == {"date", "time", "name", "phone"}
\* Extraction results of analyze_intent: "" stands for None / a missing key,
\* " " for a whitespace-only string, "x" for a value.
NoSlots == [k \in SlotKeys |-> ""]
\* No call of _merge_slots has been made.
IdleMerge == [done |-> FALSE, cur |-> NoSlots, ext |-> NoSlots, out |-> NoSlots]
Extractions ==
    { NoSlots,
      [k \in SlotKeys |-> IF k \in {"date", "time"} THEN "x" ELSE ""],
      [k \in SlotKeys |-> IF k \in {"name", "phone"} THEN "x" ELSE " "],
      [k \in SlotKeys |-> "x"] }
Intents == {"appointment", "other"}

\* Task identities: the websocket loop, the debounce task, the task running
\* delayed_force_process and the task running force_process_after_idle.
WS == 0
DEB == 1
FD == 2
FI == 3
ForceIds == {FD, FI}
\* The sessions that call synthesize_speech for the phrase.
Sessions == 1..MaxSessions
Owners == {WS, DEB} \cup ForceIds

VARIABLES
    \* fields of VoiceChatSession
    is_processing, turn_locked, is_speaking, force_next,
    audio_buffer, total_buffer_bytes,
    speech_elapsed,             \* -1: speech_start_time = 0; else the grid
                                \* boundaries since it, HardMaxSeen when
                                \* 3.0 s have passed
    last_speech_end,            \* -1: last_speech_end_time = 0; else the grid
                                \* boundaries since it, up to QuietSeen
    failed_transcription_count, conversation_history,
    booking_in_progress, slots,
    \* asyncio tasks
    debounce_task,              \* self.debounce_task
    force_task,                 \* the tasks created at lines 1085 / 1088
    inv,                        \* per task: its position in process_buffered_audio
    \* what the client has been sent and has sent
    last_status,                \* the last status event sent on the websocket
    frames_left,                \* audio frames the caller has still to send
    forces_left,                \* `force` messages the caller has still to send
    \* the synthesis caches, for one phrase (text, voice id, settings)
    cache_file,                 \* tts_cache/<cache_key>.mp3
    memory_cache,               \* the phrase is in COMMON_RESPONSES_CACHE
    provider_calls,             \* POSTs made to the ElevenLabs API
    window_over,                \* 24 hours have passed since a file was written
    req,                        \* per session: its synthesize_speech request
    \* one call of transcribe_audio
    stt,                        \* where it is, its locals and what it returns
    \* the receive loop of voice_chat_websocket
    ws_loop,                    \* "running", or "ended" once its `finally` ran
    \* one call of _merge_slots
    mrg,                        \* the slots before, the argument, the slots after
    \* the conversation history over many turns
    hst,                        \* its entries and the messages of the last completion
    \* the voice-activity detector and the turn-taking manager
    vad,                        \* VoiceActivityDetector: its thresholds, its
                                \* state and the frames it was given
    ttm,                        \* TurnTakingManager: its state, the time of
                                \* the last frame and the event it returned
    \* the registry of websocket sessions
    reg,                        \* active_sessions, each connection's handler
                                \* and the calls of end_session in flight
    \* the telephony pipeline
    vps                         \* VoicePipelineService: its session and the
                                \* calls of process_audio

sessionVars == <<is_processing, turn_locked, is_speaking, force_next,
                 audio_buffer, total_buffer_bytes, speech_elapsed,
                 failed_transcription_count, conversation_history,
                 booking_in_progress, slots, debounce_task, force_task, inv,
                 last_status, frames_left, forces_left, last_speech_end>>
cacheVars == <<cache_file, memory_cache, provider_calls, window_over, req>>
sttVars == <<stt>>
loopVars == <<ws_loop>>
\* What the steps of a session whose loop runs, those of the synthesis cache
\* and those of transcribe_audio leave alone.
mergeVars == <<mrg>>
historyVars == <<hst>>
vadVars == <<vad, ttm>>
registryVars == <<reg>>
pipelineVars == <<vps>>
outsideSession == <<cacheVars, sttVars, loopVars, mergeVars, historyVars, vadVars, registryVars, pipelineVars>>
outsideCache == <<sessionVars, sttVars, loopVars, mergeVars, historyVars, vadVars, registryVars, pipelineVars>>
outsideTranscribe == <<sessionVars, cacheVars, loopVars, mergeVars, historyVars, vadVars, registryVars, pipelineVars>>
outsideLoop == <<sessionVars, cacheVars, sttVars, mergeVars, historyVars, vadVars, registryVars, pipelineVars>>
outsideMerge == <<sessionVars, cacheVars, sttVars, loopVars, historyVars, vadVars, registryVars, pipelineVars>>
outsideHistory == <<sessionVars, cacheVars, sttVars, loopVars, mergeVars, vadVars, registryVars, pipelineVars>>
outsideVad == <<sessionVars, cacheVars, sttVars, loopVars, mergeVars, historyVars, registryVars, pipelineVars>>
outsideRegistry == <<sessionVars, cacheVars, sttVars, loopVars, mergeVars, historyVars, vadVars, pipelineVars>>
outsidePipeline == <<sessionVars, cacheVars, sttVars, loopVars, mergeVars, historyVars, vadVars, registryVars>>
vars == <<sessionVars, cacheVars, sttVars, loopVars, mergeVars, historyVars, vadVars, registryVars, pipelineVars>>

flagVars == <<is_processing, turn_locked, is_speaking, force_next>>
bufVars == <<audio_buffer, total_buffer_bytes>>
dlgVars == <<failed_transcription_count, conversation_history,
             booking_in_progress, slots>>
\* What only the receive loop and the passing of time change.
envVars == <<frames_left, forces_left, last_speech_end>>

\* ----------------------------------------------------------------- helpers
RECURSIVE SumSeq(_)
SumSeq(s) == IF s = <<>> THEN 0 ELSE Head(s) + SumSeq(Tail(s))

\* The position of one task inside process_buffered_audio (or inside the
\* fallback of force_process_after_idle) and the locals it holds there.
IdleInv == [pc |-> "none", kind |-> "none", replies |-> 0, lo |-> 0, hi |-> 0,
            cancel |-> FALSE, stt |-> FALSE, reply |-> "none", full |-> FALSE]
\* A sleep of ms milliseconds, as the grid boundaries it has to see.
Lo(ms) == ms \div TickMs
Hi(ms) == (ms + TickMs - 1) \div TickMs
Dec(n) == IF n > 0 THEN n - 1 ELSE 0

\* A session's synthesize_speech request: where it is parked, the attempt of
\* the retry decorator it is in, the requests still to make, and how the last
\* one was answered.
IdleReq == [pc |-> "idle", attempt |-> 0, left |-> MaxRequests, served |-> "none"]

\* A call of transcribe_audio: where it is parked, the local `ext` ("unset"
\* while it is unbound), whether the primary provider gave non-empty text,
\* the calls made to the secondary provider, and the value returned.
IdleStt == [pc |-> "idle", ext |-> "unset", primary_text |-> FALSE,
            whisper_calls |-> 0, result |-> <<>>]

\* The conversation history of a session that has had no turn: its entries
\* (their roles), where the turn is, and the history entries of the messages
\* generate_response last sent to the LLM.
IdleHistory == [pc |-> "idle", history |-> <<>>, messages |-> <<>>]

\* No VoiceActivityDetector has been constructed.  `frames` is the sequence
\* of frames process_frame was called with, by kind.
NoVad == [made |-> FALSE, speech_frames_required |-> 0,
          silence_frames_required |-> 0, is_speaking |-> FALSE,
          silence_frames |-> 0, speech_frames |-> 0, frames |-> <<>>]

\* TurnTakingManager.__init__ (None is "none" for the speaker and -1 for a
\* time), with the timestamp and the event of the last call of
\* process_user_audio, and whether a turn_start or interruption has been
\* returned with no turn_end after it.
NoTurnManager == [current_speaker |-> "none", turn_start_time |-> -1,
                  last_speech_time |-> -1, turn_duration |-> 0,
                  timestamp_ms |-> 0, event |-> "none", turn_open |-> FALSE]

\* The connections and the session ids they ask for.
Conns == 1..MaxConns
SessionIds == {"a", "b"}

\* No connection has been made, active_sessions is empty and no call of
\* end_session is in flight (0; otherwise the connection whose websocket the
\* call is closing).
NoConn == [state |-> "none", session_id |-> "none"]
IdleRegistry == [conn |-> [c \in Conns |-> NoConn],
                 active_sessions |-> [s \in {} |-> 0],
                 end_session |-> [s \in SessionIds |-> 0]]

\* The calls of VoicePipelineService.process_audio, the session ids they
\* are made with (the stream's and one no session was initialised for) and
\* the sizes of the payloads.
PipelineCalls == 1..MaxPipelineCalls
PipelineIds == {"stream", "other"}
PayloadSizes == {160, 15840, 16000}

\* VoicePipelineService.__init__ and no call made.  The fields of the one
\* session dict the model follows are kept beside `sessions`, the ids that
\* are keys of self.sessions: a call in flight holds the dict after
\* cleanup_session has deleted the key.  A call is at an await (its pc), or
\* has returned `result` on the way `why`.
NoCall == [pc |-> "none", session_id |-> "none", result |-> "none",
           why |-> "none"]
NoPipeline == [sessions |-> {}, started |-> FALSE, audio_buffer |-> 0,
               conversation_history |-> <<>>, processing |-> FALSE,
               call |-> [k \in PipelineCalls |-> NoCall]]

NoTask == [state |-> "none", lo |-> 0, hi |-> 0]
NoForce == [kind |-> "none", lo |-> 0, hi |-> 0]

\* `self.debounce_task and not self.debounce_task.done()`
DebouncePending == debounce_task.state \in {"sleep", "run"}

\* debounce_task.cancel() called by another task: a sleeping or suspended task
\* gets CancelledError at the await it is parked at and ends there.
InvAfterCancel(iv) ==
    IF debounce_task.state = "run" THEN [iv EXCEPT ![DEB] = IdleInv] ELSE iv

Busy == is_processing \/ turn_locked \/ is_speaking

TaskDoneDebounce(o) == IF o = DEB THEN NoTask ELSE debounce_task
TaskDoneForce(o) ==
    IF o \in ForceIds THEN [force_task EXCEPT ![o] = NoForce] ELSE force_task

\* -------------------------------------------------------------------- Init
\* The state after VoiceChatSession.__init__ and the module's initialisation,
\* with the frames and `force` messages the caller is going to send.
InitWith(frames, forces) ==
    /\ is_processing = FALSE /\ turn_locked = FALSE
    /\ is_speaking = FALSE /\ force_next = FALSE
    /\ audio_buffer = <<>> /\ total_buffer_bytes = 0
    /\ speech_elapsed = -1
    /\ last_speech_end = -1
    /\ failed_transcription_count = 0
    /\ conversation_history = <<>>
    /\ booking_in_progress = FALSE
    /\ slots = NoSlots
    /\ debounce_task = NoTask
    /\ force_task = [i \in ForceIds |-> NoForce]
    /\ inv = [o \in Owners |-> IdleInv]
    /\ last_status = "connected"
    /\ frames_left = frames
    /\ forces_left = forces
    /\ cache_file = "absent"
    /\ memory_cache = FALSE
    /\ provider_calls = 0
    /\ window_over = FALSE
    /\ req = [r \in Sessions |-> IdleReq]
    /\ stt = IdleStt
    /\ ws_loop = "running"
    /\ mrg = IdleMerge
    /\ hst = IdleHistory
    /\ vad = NoVad
    /\ ttm = NoTurnManager
    /\ reg = IdleRegistry
    /\ vps = NoPipeline

Init == InitWith(MaxFrames, MaxForces)

\* ------------------------------------------------- process_buffered_audio
\* Entry of process_buffered_audio: the `thinking` status is sent (line 243)
\* before the lock is taken; the task is parked at that await.
EnterPBA(iv, o) == [iv EXCEPT ![o] = [IdleInv EXCEPT !.pc = "thinking"]]

\* ------------------------------------------------------- websocket loop
\* Faulty variant of the condition below: `>` in place of `>=`.
DebounceShouldProcessStrict ==
    /\ audio_buffer # <<>>
    /\ ~is_processing
    /\ ~turn_locked
    /\ (total_buffer_bytes > MinBytesTrigger \/ force_next)

\* _debounce_process, the condition under which the fired timer processes.
DebounceShouldProcess ==
    /\ audio_buffer # <<>>
    /\ ~is_processing
    /\ ~turn_locked
    /\ (total_buffer_bytes >= MinBytesTrigger \/ force_next)

\* The boundaries a sleep of debounce_ms sees at most.
QuietSeen == Hi(DebounceMs)

\* process_audio_chunk, line 211: the hard maximum turn duration is reached.
HardMaxSeen == Hi(HardMaxMs) + 1
HardMaxReached(elapsed) == elapsed >= HardMaxSeen

\* Faulty variant of the restart below: a timer that is pending is kept.
DebounceKeptPending(task) ==
    IF task.state = "sleep" THEN task
    ELSE [state |-> "sleep", lo |-> Lo(DebounceMs), hi |-> Hi(DebounceMs)]

\* Lines 198-207: the pending timer is cancelled and a new task sleeps
\* debounce_ms, whatever the old one was.
DebounceAfterChunk(task) ==
    [state |-> "sleep", lo |-> Lo(DebounceMs), hi |-> Hi(DebounceMs)]

\* process_audio_chunk(audio_data), with len(audio_data) = size.
process_audio_chunk(size) ==
    IF is_speaking
    THEN \* barge-in, lines 155-164
         /\ is_speaking' = FALSE
         /\ turn_locked' = FALSE
         /\ last_status' = "interrupted"
         /\ audio_buffer' = <<size>>
         /\ total_buffer_bytes' = size
         /\ UNCHANGED <<is_processing, force_next, speech_elapsed, dlgVars,
                        debounce_task, force_task, inv, last_speech_end>>
    ELSE IF is_processing \/ turn_locked
    THEN \* line 166: skip while a turn is processed
         UNCHANGED <<flagVars, bufVars, speech_elapsed, dlgVars, debounce_task,
                     force_task, inv, last_status, last_speech_end>>
    ELSE \* lines 170-222
         LET elapsed == IF speech_elapsed = -1 THEN 0 ELSE speech_elapsed IN
         /\ audio_buffer' = Append(audio_buffer, size)
         /\ total_buffer_bytes' = total_buffer_bytes + size
         /\ speech_elapsed' = elapsed
         /\ last_speech_end' = 0
         /\ IF HardMaxReached(elapsed)
            THEN \* lines 212-217: the new timer is cancelled, the turn is
                 \* processed inside the websocket loop
                 /\ force_next' = TRUE
                 /\ debounce_task' = NoTask
                 /\ inv' = EnterPBA(InvAfterCancel(inv), WS)
                 /\ last_status' = "thinking"
            ELSE \* lines 198-207: restart the end-of-turn timer
                 /\ debounce_task' = DebounceAfterChunk(debounce_task)
                 /\ inv' = InvAfterCancel(inv)
                 /\ UNCHANGED <<force_next, last_status>>
         /\ UNCHANGED <<is_processing, turn_locked, is_speaking, dlgVars,
                        force_task>>

\* voice_chat_websocket, lines 1094-1103: a binary frame is received.  While
\* the loop awaits process_audio_chunk (a turn processed inside it) no frame
\* is consumed.
ReceiveAudio(size) ==
    /\ ws_loop = "running"
    /\ inv[WS].pc = "none"
    /\ frames_left > 0
    /\ frames_left' = frames_left - 1
    /\ UNCHANGED <<forces_left, outsideSession>>
    /\ IF ~is_speaking
       THEN process_audio_chunk(size)
       ELSE UNCHANGED <<flagVars, bufVars, speech_elapsed, dlgVars,
                        debounce_task, force_task, inv, last_status,
                        last_speech_end>>

\* voice_chat_websocket, lines 1076-1088: a `force` message is received.
ReceiveForce(i) ==
    /\ ws_loop = "running"
    /\ inv[WS].pc = "none"
    /\ i = IF Busy THEN FI ELSE FD
    /\ force_task[i].kind = "none"
    /\ forces_left > 0
    /\ forces_left' = forces_left - 1
    /\ UNCHANGED <<frames_left, last_speech_end, outsideSession>>
    /\ force_next' = TRUE
    /\ debounce_task' = IF DebouncePending THEN NoTask ELSE debounce_task
    /\ inv' = InvAfterCancel(inv)
    /\ force_task' = [force_task EXCEPT ![i] =
          IF Busy
          THEN [kind |-> "after_idle", lo |-> Lo(ForceMaxWaitMs),
                                       hi |-> Hi(ForceMaxWaitMs)]
          ELSE [kind |-> "delayed", lo |-> Lo(ForceDelayMs),
                                    hi |-> Hi(ForceDelayMs)]]
    /\ UNCHANGED <<is_processing, turn_locked, is_speaking, bufVars,
                   speech_elapsed, dlgVars, last_status>>

\* _debounce_process: the sleep of debounce_ms is over.
DebounceFire ==
    /\ debounce_task.state = "sleep"
    /\ debounce_task.lo = 0
    /\ IF DebounceShouldProcess
       THEN /\ debounce_task' = [state |-> "run", lo |-> 0, hi |-> 0]
            /\ inv' = EnterPBA(inv, DEB)
            /\ last_status' = "thinking"
       ELSE /\ debounce_task' = NoTask
            /\ UNCHANGED <<inv, last_status>>
    /\ UNCHANGED <<flagVars, bufVars, speech_elapsed, dlgVars, force_task,
                   envVars, outsideSession>>

\* delayed_force_process: the sleep of 0.25 s is over.
ForceDelayedWake(i) ==
    /\ force_task[i].kind = "delayed"
    /\ force_task[i].lo = 0
    /\ inv[i].pc = "none"
    /\ IF ~is_processing /\ ~turn_locked
       THEN /\ inv' = EnterPBA(inv, i)
            /\ last_status' = "thinking"
            /\ UNCHANGED force_task
       ELSE /\ force_task' = [force_task EXCEPT ![i] = NoForce]
            /\ UNCHANGED <<inv, last_status>>
    /\ UNCHANGED <<flagVars, bufVars, speech_elapsed, dlgVars, debounce_task,
                   envVars, outsideSession>>

\* force_process_after_idle: the wait loop (polling every 0.05 s) is left,
\* because the session is idle or because 1.0 s have been waited, and lines
\* 966-988 run up to the first await.
ForceWaitOver(i) ==
    /\ force_task[i].kind = "after_idle"
    /\ inv[i].pc = "none"
    /\ ~Busy \/ force_task[i].lo = 0
    /\ debounce_task' = IF DebouncePending THEN NoTask ELSE debounce_task
    /\ IF audio_buffer = <<>> /\ total_buffer_bytes = 0
       THEN \* lines 970-973: fallback without process_buffered_audio
            /\ inv' = [InvAfterCancel(inv) EXCEPT ![i] =
                  [IdleInv EXCEPT !.pc = "speaking", !.kind = "idle_fallback"]]
            /\ last_status' = "speaking"
       ELSE /\ inv' = EnterPBA(InvAfterCancel(inv), i)
            /\ last_status' = "thinking"
    /\ UNCHANGED force_task
    /\ UNCHANGED <<flagVars, bufVars, speech_elapsed, dlgVars, envVars, outsideSession>>

\* -------------------------------------------- process_buffered_audio steps
\* Lines 286 and 357-361: the buffer is dropped without transcription.  The
\* sample combined_audio[100:1000] of a buffer shorter than 150 bytes has
\* fewer than 50 bytes, hence fewer than 50 distinct ones.
TooSmall(len, force) == len < MinCombinedBytes /\ ~force
LooksLikeNoise(len, lowEntropy, force) ==
    /\ len > SampleStart
    /\ (len - SampleStart < MinUniqueBytes \/ lowEntropy)
    /\ ~force

\* What the exits of process_buffered_audio reset, by kind of exit.
\*   q_early: lines 253-255, 289-291, 364-366
\*   q_empty: lines 406-409;  q_short: lines 440-444
\*   otherwise (end of a spoken reply or fallback, error handler):
\*   lines 269-273, 400-409, 519-525, 530-534, 982-986
ClearFlags(kind) ==
    /\ turn_locked' = FALSE
    /\ is_processing' = FALSE
    /\ speech_elapsed' = -1
    /\ force_next' = IF kind = "q_early" THEN force_next ELSE FALSE
    /\ is_speaking' = IF kind \in {"q_early", "q_empty"} THEN is_speaking ELSE FALSE

\* Lines 245-374: from the return of send_status("thinking") to the next await.
ResumeThinking(o) ==
    /\ inv[o].pc = "thinking"
    /\ IF audio_buffer = <<>>
       THEN /\ turn_locked' = TRUE
            /\ is_processing' = TRUE
            /\ IF ~force_next
               THEN /\ inv' = [inv EXCEPT ![o].pc = "quiet", ![o].kind = "q_early"]
                    /\ last_status' = "listening"
               ELSE /\ inv' = [inv EXCEPT ![o].pc = "speaking",
                                          ![o].kind = "force_fallback"]
                    /\ last_status' = "speaking"
            /\ UNCHANGED <<is_speaking, force_next, bufVars, speech_elapsed,
                           debounce_task>>
       ELSE LET len == SumSeq(audio_buffer)
                \* line 282: cancelling the running task itself only
                \* requests the cancellation
                self == (o = DEB /\ debounce_task.state = "run")
                iv == IF self THEN inv ELSE InvAfterCancel(inv)
            IN
            /\ audio_buffer' = <<>>
            /\ total_buffer_bytes' = 0
            /\ \E lowEntropy \in BOOLEAN :
                 IF TooSmall(len, force_next)
                    \/ LooksLikeNoise(len, lowEntropy, force_next)
                 THEN /\ last_status' = "listening"
                      /\ \/ \* send_status("listening") suspends
                            /\ inv' = [iv EXCEPT ![o].pc = "quiet",
                                                 ![o].kind = "q_early",
                                                 ![o].cancel = self]
                            /\ turn_locked' = TRUE
                            /\ is_processing' = TRUE
                            /\ debounce_task' =
                                 IF self \/ ~DebouncePending THEN debounce_task
                                 ELSE NoTask
                            /\ UNCHANGED <<is_speaking, force_next, speech_elapsed>>
                         \/ \* it does not: a requested cancellation is not
                            \* delivered and the task returns
                            /\ self
                            /\ inv' = [iv EXCEPT ![o] = IdleInv]
                            /\ debounce_task' = NoTask
                            /\ ClearFlags("q_early")
                 ELSE /\ inv' = [iv EXCEPT ![o].pc = "transcribe",
                                            ![o].stt = TRUE,
                                            ![o].cancel = self]
                      /\ turn_locked' = TRUE
                      /\ is_processing' = TRUE
                      /\ debounce_task' =
                           IF self \/ ~DebouncePending THEN debounce_task
                           ELSE NoTask
                      /\ UNCHANGED <<is_speaking, force_next, speech_elapsed,
                                     last_status>>
    /\ UNCHANGED <<dlgVars, force_task, envVars, outsideSession>>

\* A task whose cancellation was requested while it ran gets CancelledError at
\* the await it reaches; `except Exception` (line 527) does not catch it, and
\* _debounce_process returns (line 235).
Cancelled(o) ==
    /\ inv[o].pc # "none"
    /\ inv[o].cancel
    /\ inv' = [inv EXCEPT ![o] = IdleInv]
    /\ debounce_task' = TaskDoneDebounce(o)
    /\ UNCHANGED <<flagVars, bufVars, speech_elapsed, dlgVars, force_task,
                   last_status, envVars, outsideSession>>

\* Return from an exit that only sent `listening`.
ResumeQuiet(o) ==
    /\ inv[o].pc = "quiet"
    /\ ~inv[o].cancel
    /\ ClearFlags(inv[o].kind)
    /\ inv' = [inv EXCEPT ![o] = IdleInv]
    /\ debounce_task' = TaskDoneDebounce(o)
    /\ force_task' = TaskDoneForce(o)
    /\ UNCHANGED <<bufVars, dlgVars, last_status, envVars, outsideSession>>

\* ------------------------------------------------------------ dialogue
\* str.strip() on the modelled slot values: " " is whitespace only, " x " a
\* value with blanks around it.
Strip(v) == IF v = " " THEN "" ELSE IF v = " x " THEN "x" ELSE v

\* Values of an extraction that are no strings: None (also what dict.get
\* gives for a missing key) and a number.
NonStrings == {"<None>", "<7>"}
\* isinstance(val, str)
IsStr(v) == v \notin NonStrings

\* Faulty variant of the merge below: any string replaces the slot.
MergeSlotAnyString(cur, val) == IF IsStr(val) THEN Strip(val) ELSE cur

\* _merge_slots: a non-empty stripped string replaces the slot.
MergeSlot(cur, val) == IF IsStr(val) /\ Strip(val) # "" THEN Strip(val) ELSE cur
MergeSlots(cur, ext) == [k \in SlotKeys |-> MergeSlot(cur[k], ext[k])]

\* _get_missing_slots, in the order date, time, name, phone.
MissingOrder == <<"date", "time", "name", "phone">>
IsMissing(s, k) == s[k] = ""
GetMissingSlots(s) == SelectSeq(MissingOrder, LAMBDA k : IsMissing(s, k))

\* _render_confirmation.
RenderConfirmation(s) ==
    IF s["name"] = "" \/ s["phone"] = "" THEN "ask_contact" ELSE "confirmation"

\* Line 462: the turn is handled by the booking flow.
BookingTurn(intent, inProgress) == intent = "appointment" \/ inProgress

\* Outcomes of the awaited provider calls.
Transcripts == {"empty", "short", "valid"}
Completions == {"text", "refusal", "none"}

\* Lines 377-451: the return of transcribe_audio.
ResumeTranscribe(o, t) ==
    /\ inv[o].pc = "transcribe"
    /\ ~inv[o].cancel
    /\   IF t = "valid"
         THEN /\ Len(conversation_history) + 2 <= MaxHistory
              /\ failed_transcription_count' = 0
              /\ conversation_history' = Append(conversation_history, "user")
              /\ inv' = [inv EXCEPT ![o].pc = "intent"]
              /\ UNCHANGED last_status
         ELSE /\ failed_transcription_count' = failed_transcription_count + 1
              /\ UNCHANGED conversation_history
              /\ IF failed_transcription_count + 1 >= MaxFailedTranscriptions
                 THEN /\ inv' = [inv EXCEPT ![o].pc = "speaking",
                                            ![o].kind = "clarify_" \o t]
                      /\ last_status' = "speaking"
                 ELSE /\ inv' = [inv EXCEPT ![o].pc = "quiet",
                                            ![o].kind = "q_" \o t]
                      /\ last_status' = "listening"
    /\ UNCHANGED <<flagVars, bufVars, speech_elapsed, booking_in_progress,
                   slots, debounce_task, force_task, envVars, outsideSession>>

\* Lines 456-476 and, for the booking flow, 478-492: the return of
\* analyze_intent.
ResumeIntent(o, intent, ext) ==
    /\ inv[o].pc = "intent"
    /\   LET merged == MergeSlots(slots, ext)
             missing == GetMissingSlots(merged)
         IN
         IF BookingTurn(intent, booking_in_progress)
         THEN /\ IF missing # <<>>
                 THEN /\ booking_in_progress' = TRUE
                      /\ slots' = merged
                      /\ inv' = [inv EXCEPT ![o].pc = "speaking",
                                            ![o].kind = "reply",
                                            ![o].reply = "ask_" \o missing[1],
                                            ![o].full = FALSE]
                 ELSE /\ booking_in_progress' = FALSE
                      /\ slots' = NoSlots
                      /\ inv' = [inv EXCEPT ![o].pc = "speaking",
                                            ![o].kind = "reply",
                                            ![o].reply = RenderConfirmation(merged),
                                            ![o].full = TRUE]
              /\ conversation_history' = Append(conversation_history, "assistant")
              /\ last_status' = "speaking"
         ELSE /\ slots' = merged
              /\ inv' = [inv EXCEPT ![o].pc = "generate",
                                    ![o].full = (missing = <<>>)]
              /\ UNCHANGED <<booking_in_progress, conversation_history,
                             last_status>>
    /\ UNCHANGED <<flagVars, bufVars, speech_elapsed,
                   failed_transcription_count, debounce_task, force_task,
                   envVars, outsideSession>>

\* Lines 476-492: the return of generate_response.  A completion without
\* content is None, and ai_response.lower() (line 483) raises.
ResumeGenerate(o, c) ==
    /\ inv[o].pc = "generate"
    /\   IF c = "none"
         THEN /\ inv' = [inv EXCEPT ![o].pc = "error"]
              /\ last_status' = "error"
              /\ UNCHANGED conversation_history
         ELSE /\ inv' = [inv EXCEPT ![o].pc = "speaking", ![o].kind = "reply",
                            ![o].reply = IF c = "refusal" THEN "redirect" ELSE "llm"]
              /\ conversation_history' = Append(conversation_history, "assistant")
              /\ last_status' = "speaking"
    /\ UNCHANGED <<flagVars, bufVars, speech_elapsed,
                   failed_transcription_count, booking_in_progress, slots,
                   debounce_task, force_task, envVars, outsideSession>>

\* Faulty variant of the handler below: it does not release turn_locked.
ErrorHandlerKeepsLock(o) ==
    /\ inv[o].pc = "error"
    /\ is_processing' = FALSE
    /\ is_speaking' = FALSE
    /\ force_next' = FALSE
    /\ speech_elapsed' = -1
    /\ inv' = [inv EXCEPT ![o] = IdleInv]
    /\ debounce_task' = TaskDoneDebounce(o)
    /\ force_task' = TaskDoneForce(o)
    /\ UNCHANGED <<turn_locked, bufVars, dlgVars, last_status, envVars, outsideSession>>

\* Lines 527-534: the handler of `except Exception`, after its send.
ErrorHandler(o) ==
    /\ inv[o].pc = "error"
    /\ ClearFlags("error")
    /\ inv' = [inv EXCEPT ![o] = IdleInv]
    /\ debounce_task' = TaskDoneDebounce(o)
    /\ force_task' = TaskDoneForce(o)
    /\ UNCHANGED <<bufVars, dlgVars, last_status, envVars, outsideSession>>

\* ------------------------------------------------- speaking a reply
\* asyncio.sleep before listening again: 0.3 s after a reply (line 518),
\* 0.2 s after a fallback utterance (lines 268, 399, 435, 981).
GuardMs(kind) == IF kind = "reply" THEN ReplyGuardMs ELSE FallbackGuardMs

IsClarify(kind) == kind \in {"clarify_empty", "clarify_short"}

\* After send_status("speaking"): is_speaking is set and synthesize_speech is
\* awaited (lines 260-261, 387-388, 423-424, 493-496, 973-974).
ResumeSpeaking(o) ==
    /\ inv[o].pc = "speaking"
    /\ is_speaking' = TRUE
    /\ inv' = [inv EXCEPT ![o].pc = "synth"]
    /\ UNCHANGED <<is_processing, turn_locked, force_next, bufVars,
                   speech_elapsed, dlgVars, debounce_task, force_task,
                   last_status, envVars, outsideSession>>

\* The `finally` of the clarification (lines 397, 433) resets the counter
\* before `listening` is sent.
CountAfterUtterance(kind) ==
    IF IsClarify(kind) THEN 0 ELSE failed_transcription_count

\* The return of synthesize_speech: with a URL the tts_url message is sent,
\* without one (None, None) nothing is sent and `listening` follows.
ResumeSynth(o) ==
    /\ inv[o].pc = "synth"
    /\ \E url \in BOOLEAN :
         IF url
         THEN /\ inv' = [inv EXCEPT ![o].pc = "send_tts", ![o].replies = @ + 1]
              /\ UNCHANGED <<failed_transcription_count, last_status>>
         ELSE /\ inv' = [inv EXCEPT ![o].pc = "listening"]
              /\ failed_transcription_count' = CountAfterUtterance(inv[o].kind)
              /\ last_status' = "listening"
    /\ UNCHANGED <<flagVars, bufVars, speech_elapsed, conversation_history,
                   booking_in_progress, slots, debounce_task, force_task,
                   envVars, outsideSession>>

\* After the tts_url message: `listening` is sent.
ResumeSendTts(o) ==
    /\ inv[o].pc = "send_tts"
    /\ inv' = [inv EXCEPT ![o].pc = "listening"]
    /\ failed_transcription_count' = CountAfterUtterance(inv[o].kind)
    /\ last_status' = "listening"
    /\ UNCHANGED <<flagVars, bufVars, speech_elapsed, conversation_history,
                   booking_in_progress, slots, debounce_task, force_task,
                   envVars, outsideSession>>

\* After send_status("listening"): the guard sleep starts.
ResumeListening(o) ==
    /\ inv[o].pc = "listening"
    /\ inv' = [inv EXCEPT ![o].pc = "sleep", ![o].lo = Lo(GuardMs(inv[o].kind)),
                          ![o].hi = Hi(GuardMs(inv[o].kind))]
    /\ UNCHANGED <<flagVars, bufVars, speech_elapsed, dlgVars, debounce_task,
                   force_task, last_status, envVars, outsideSession>>

\* The guard sleep is over: the flags are reset and the task returns.
ResumeSleep(o) ==
    /\ inv[o].pc = "sleep"
    /\ inv[o].lo = 0
    /\ ClearFlags(inv[o].kind)
    /\ inv' = [inv EXCEPT ![o] = IdleInv]
    /\ debounce_task' = TaskDoneDebounce(o)
    /\ force_task' = TaskDoneForce(o)
    /\ UNCHANGED <<bufVars, dlgVars, last_status, envVars, outsideSession>>

\* ------------------------------------------------------------------ time
TimerDue ==
    \/ debounce_task.state = "sleep" /\ debounce_task.hi = 0
    \/ \E i \in ForceIds :
         force_task[i].kind # "none" /\ inv[i].pc = "none" /\ force_task[i].hi = 0
    \/ \E o \in Owners : inv[o].pc = "sleep" /\ inv[o].hi = 0
    \* force_process_after_idle polls every 0.05 s: it sees an idle session
    \* before the next boundary
    \/ \E i \in ForceIds :
         force_task[i].kind = "after_idle" /\ inv[i].pc = "none" /\ ~Busy

\* A task is parked at a send on the websocket.
SendPending ==
    \E o \in Owners :
        inv[o].pc \in {"thinking", "quiet", "speaking", "send_tts", "listening",
                       "error"}

DecTimer(t) == [t EXCEPT !.lo = Dec(@), !.hi = Dec(@)]

\* A grid boundary passes.  A timer that is due fires first.
Tick ==
    /\ ~TimerDue
    /\ ~SendPending
    /\ debounce_task' = DecTimer(debounce_task)
    /\ force_task' = [i \in ForceIds |-> DecTimer(force_task[i])]
    /\ inv' = [o \in Owners |-> DecTimer(inv[o])]
    /\ speech_elapsed' =
         IF speech_elapsed >= 0 /\ speech_elapsed < HardMaxSeen
         THEN speech_elapsed + 1 ELSE speech_elapsed
    /\ last_speech_end' =
         IF last_speech_end >= 0 /\ last_speech_end < QuietSeen
         THEN last_speech_end + 1 ELSE last_speech_end
    /\ UNCHANGED <<flagVars, bufVars, dlgVars, last_status, frames_left,
                   forces_left, outsideSession>>

\* Inside the grid cell in which 3.0 s since speech_start_time are completed,
\* the instant at which they are.
HardMaxInstant ==
    /\ speech_elapsed >= Lo(HardMaxMs)
    /\ speech_elapsed < HardMaxSeen
    /\ speech_elapsed' = HardMaxSeen
    /\ UNCHANGED <<flagVars, bufVars, dlgVars, debounce_task, force_task, inv,
                   last_status, envVars, outsideSession>>

\* ------------------------------------------------------------- system
Next ==
    \/ \E size \in ChunkSizes : ReceiveAudio(size)
    \/ \E i \in ForceIds : ReceiveForce(i)
    \/ DebounceFire
    \/ \E i \in ForceIds : ForceDelayedWake(i)
    \/ \E i \in ForceIds : ForceWaitOver(i)
    \/ \E o \in Owners : ResumeThinking(o)
    \/ \E o \in Owners : Cancelled(o)
    \/ \E o \in Owners : ResumeQuiet(o)
    \/ \E o \in Owners, t \in Transcripts : ResumeTranscribe(o, t)
    \/ \E o \in Owners : ResumeIntent(o, "other", NoSlots)
    \/ \E o \in Owners, c \in {"text", "none"} : ResumeGenerate(o, c)
    \/ \E o \in Owners : ErrorHandler(o)
    \/ \E o \in Owners : ResumeSpeaking(o)
    \/ \E o \in Owners : ResumeSynth(o)
    \/ \E o \in Owners : ResumeSendTts(o)
    \/ \E o \in Owners : ResumeListening(o)
    \/ \E o \in Owners : ResumeSleep(o)
    \/ Tick
    \/ HardMaxInstant

Spec == Init /\ [][Next]_vars

\* ------------------------------------------- the receive loop and its end
\* Text frames that are no well-formed message of the protocol: text that is
\* not JSON, JSON that is no object, an object whose `type` is not known.
MalformedMessages == {"invalid_json", "not_object"}
IgnoredMessages == {"unknown_type", "ping"}

\* The loop is parked at websocket.receive() (line 1053).
AtReceive == ws_loop = "running" /\ inv[WS].pc = "none"

\* Lines 1107-1117: the loop is left and `finally` has removed the session
\* from active_sessions.  No task of the session is cancelled there
\* (_eleven_pump_task is None without the conversational path).
EndLoop ==
    /\ ws_loop' = "ended"
    /\ UNCHANGED outsideLoop

\* Lines 1055-1091: a text frame no branch takes (the chain of if / elif has
\* no else).
ReceiveIgnored(msg) ==
    /\ AtReceive
    /\ msg \in IgnoredMessages
    /\ UNCHANGED vars

\* Lines 1057 and 1059: json.loads raises on text that is not JSON, and
\* message.get raises AttributeError on JSON that is no object; the `try`
\* encloses the whole loop, so `except Exception` (line 1107) ends it.
ReceiveMalformed(msg) ==
    /\ AtReceive
    /\ msg \in MalformedMessages
    /\ EndLoop

\* Lines 1060-1066: `config`.
ReceiveConfig ==
    /\ AtReceive
    /\ last_status' = "listening"
    /\ UNCHANGED <<flagVars, bufVars, speech_elapsed, dlgVars, debounce_task,
                   force_task, inv, envVars, outsideSession>>

\* Lines 1090-1092: `end`.
ReceiveEnd ==
    /\ AtReceive
    /\ EndLoop

\* Line 1105: the transport is gone and receive() raises WebSocketDisconnect.
Disconnect ==
    /\ AtReceive
    /\ EndLoop

\* A send on the websocket of an ended loop.  The server may drop the message
\* (the step that follows the send then runs as it does on a live socket) or
\* raise.  The tts_url send swallows the exception (lines 503-504); any other
\* one reaches `except Exception` (line 527), whose own send_status("error")
\* raises again, so the task ends with the flags as they are.  The `finally`
\* of a clarification (lines 397, 433) still resets the counter.
SendFails(o) ==
    /\ ws_loop = "ended"
    /\ inv[o].pc \in {"thinking", "quiet", "speaking", "send_tts", "listening",
                      "error"}
    /\ ~inv[o].cancel
    /\ IF inv[o].pc = "send_tts"
       THEN /\ inv' = [inv EXCEPT ![o].pc = "listening"]
            /\ failed_transcription_count' = CountAfterUtterance(inv[o].kind)
            /\ UNCHANGED <<debounce_task, force_task>>
       ELSE /\ inv' = [inv EXCEPT ![o] = IdleInv]
            /\ failed_transcription_count' =
                 IF inv[o].pc = "speaking" THEN CountAfterUtterance(inv[o].kind)
                 ELSE failed_transcription_count
            /\ debounce_task' = TaskDoneDebounce(o)
            /\ force_task' = TaskDoneForce(o)
    /\ UNCHANGED <<flagVars, bufVars, speech_elapsed, conversation_history,
                   booking_in_progress, slots, last_status, envVars,
                   outsideSession>>

NextLoop ==
    \/ Next
    \/ \E msg \in IgnoredMessages : ReceiveIgnored(msg)
    \/ \E msg \in MalformedMessages : ReceiveMalformed(msg)
    \/ ReceiveConfig
    \/ ReceiveEnd
    \/ Disconnect
    \/ \E o \in Owners : SendFails(o)

SpecLoop == Init /\ [][NextLoop]_vars

\* ------------------------------------------------- a caller who goes silent
\* The caller sends ScenarioBytes bytes of audio in all, in one to three
\* frames, and then nothing.
ScenarioBytes == 1500
ScenarioChunks == {500, 1000, 1500}
MaxScenarioFrames == 3

CallerScenario(size) ==
    /\ total_buffer_bytes + size <= ScenarioBytes
    /\ ReceiveAudio(size)

InitScenario == InitWith(MaxScenarioFrames, 0)

NextScenario ==
    \/ \E size \in ScenarioChunks : CallerScenario(size)
    \/ DebounceFire
    \/ \E o \in Owners : ResumeThinking(o)
    \/ \E o \in Owners : ResumeQuiet(o)
    \/ \E o \in Owners, t \in Transcripts : ResumeTranscribe(o, t)
    \/ \E o \in Owners : ResumeIntent(o, "other", NoSlots)
    \/ \E o \in Owners, c \in {"text", "none"} : ResumeGenerate(o, c)
    \/ \E o \in Owners : ErrorHandler(o)
    \/ \E o \in Owners : ResumeSpeaking(o)
    \/ \E o \in Owners : ResumeSynth(o)
    \/ \E o \in Owners : ResumeSendTts(o)
    \/ \E o \in Owners : ResumeListening(o)
    \/ \E o \in Owners : ResumeSleep(o)
    \/ Tick
    \/ HardMaxInstant

SpecScenario == InitScenario /\ [][NextScenario]_vars

\* ------------------------------------------- one turn after the other
\* A caller who sends one frame, then `force`, and waits for the turn to end.
Quiescent ==
    /\ ~Busy
    /\ \A o \in Owners : inv[o].pc = "none"
    /\ \A i \in ForceIds : force_task[i].kind = "none"

CallerSpeaks(size) ==
    /\ Quiescent
    /\ audio_buffer = <<>>
    /\ ReceiveAudio(size)

CallerForces ==
    /\ Quiescent
    /\ audio_buffer # <<>>
    /\ ReceiveForce(FD)

InitDialogue == InitWith(MaxTurns, MaxTurns)

NextDialogue ==
    \/ \E size \in ChunkSizes : CallerSpeaks(size)
    \/ CallerForces
    \/ DebounceFire
    \/ ForceDelayedWake(FD)
    \/ \E o \in Owners : ResumeThinking(o)
    \/ \E o \in Owners : ResumeQuiet(o)
    \/ \E o \in Owners, t \in Transcripts : ResumeTranscribe(o, t)
    \/ \E o \in Owners, intent \in Intents, ext \in Extractions :
          ResumeIntent(o, intent, ext)
    \/ \E o \in Owners, c \in Completions : ResumeGenerate(o, c)
    \/ \E o \in Owners : ErrorHandler(o)
    \/ \E o \in Owners : ResumeSpeaking(o)
    \/ \E o \in Owners : ResumeSynth(o)
    \/ \E o \in Owners : ResumeSendTts(o)
    \/ \E o \in Owners : ResumeListening(o)
    \/ \E o \in Owners : ResumeSleep(o)
    \/ Tick

SpecDialogue == InitDialogue /\ [][NextDialogue]_vars

\* ------------------------------------------------------- synthesis caches
\* The file tts_cache/<cache_key>.mp3 is "absent", "partial" (opened for
\* writing, nothing flushed yet), "fresh" (complete, younger than 24 hours)
\* or "expired".
\* Faulty variant of the lookup below: it never finds the file.
CachedAudioNever(file) == FALSE

\* _get_cached_audio returns data: the file exists, is younger than 24 hours
\* and is not empty (line 112 takes b"" for a miss).
CachedAudio(file) == file = "fresh"

\* _get_cached_audio unlinks a file that is too old.
FileAfterLookup(file) == IF file = "expired" THEN "absent" ELSE file

\* ElevenLabsService.synthesize_speech, lines 98-138: one attempt, up to its
\* first suspension: the read of the cached file or the POST to the provider.
BeginAttempt(r, n, left) ==
    IF CachedAudio(cache_file)
    THEN /\ req' = [req EXCEPT ![r] = [pc |-> "read", attempt |-> n,
                                       left |-> left, served |-> "file"]]
         /\ UNCHANGED <<cache_file, provider_calls>>
    ELSE /\ provider_calls < MaxCalls
         /\ req' = [req EXCEPT ![r] = [pc |-> "post", attempt |-> n,
                                       left |-> left, served |-> "provider"]]
         /\ cache_file' = FileAfterLookup(cache_file)
         /\ provider_calls' = provider_calls + 1

\* VoiceChatSession.synthesize_speech, lines 856-894: the in-memory table is
\* looked up, then the service is called.
StartRequest(r) ==
    /\ req[r].pc = "idle"
    /\ req[r].left > 0
    /\ IF memory_cache
       THEN /\ req' = [req EXCEPT ![r].left = @ - 1, ![r].served = "memory"]
            /\ UNCHANGED <<cache_file, provider_calls>>
       ELSE BeginAttempt(r, 1, req[r].left - 1)
    /\ UNCHANGED <<memory_cache, window_over, outsideCache>>

\* The read of the cached file returns (lines 67-70, 112-118).  A file that
\* was unlinked or truncated in the meantime gives no data, and the attempt
\* goes on to the provider.
ResumeRead(r) ==
    /\ req[r].pc = "read"
    /\ IF cache_file \in {"fresh", "expired"}
       THEN /\ req' = [req EXCEPT ![r].pc = "fetch"]
            /\ UNCHANGED provider_calls
       ELSE /\ provider_calls < MaxCalls
            /\ req' = [req EXCEPT ![r].pc = "post", ![r].served = "provider"]
            /\ provider_calls' = provider_calls + 1
    /\ UNCHANGED <<cache_file, memory_cache, window_over, outsideCache>>

\* The POST returns (lines 138-147, 162-174): with audio, _cache_audio opens
\* the file for writing; with an error the decorator retries, at most
\* MaxAttempts attempts in all, and then gives up (lines 915-917).
ResumePost(r, ok) ==
    /\ req[r].pc = "post"
    /\ IF ok
       THEN /\ req' = [req EXCEPT ![r].pc = "write"]
            /\ cache_file' = "partial"
       ELSE /\ req' = [req EXCEPT ![r].pc =
                        IF req[r].attempt < MaxAttempts THEN "backoff" ELSE "idle",
                                    ![r].served =
                        IF req[r].attempt < MaxAttempts THEN @ ELSE "failed"]
            /\ UNCHANGED cache_file
    /\ UNCHANGED <<memory_cache, provider_calls, window_over, outsideCache>>

\* The wait of the retry decorator is over: the next attempt starts.
ResumeBackoff(r) ==
    /\ req[r].pc = "backoff"
    /\ BeginAttempt(r, req[r].attempt + 1, req[r].left)
    /\ UNCHANGED <<memory_cache, window_over, outsideCache>>

\* _cache_audio, lines 84-88: the write ends; an error is logged and dropped.
ResumeWrite(r, ok) ==
    /\ req[r].pc = "write"
    /\ cache_file' = IF ok THEN "fresh" ELSE cache_file
    /\ req' = [req EXCEPT ![r].pc = "fetch"]
    /\ UNCHANGED <<memory_cache, provider_calls, window_over, outsideCache>>

\* VoiceChatSession.synthesize_speech, lines 896-909: the audio is read back
\* with get_cached_audio_file and the phrase is put in the in-memory table
\* when it is short and the table has room.
ResumeFetch(r, room) ==
    /\ req[r].pc = "fetch"
    /\ cache_file' = FileAfterLookup(cache_file)
    /\ memory_cache' = (memory_cache \/ room)
    /\ req' = [req EXCEPT ![r].pc = "idle"]
    /\ UNCHANGED <<provider_calls, window_over, outsideCache>>

\* 24 hours pass since the file was written.
Expire ==
    /\ cache_file = "fresh"
    /\ cache_file' = "expired"
    /\ window_over' = TRUE
    /\ UNCHANGED <<memory_cache, provider_calls, req, outsideCache>>

NextCache ==
    \/ \E r \in Sessions : StartRequest(r)
    \/ \E r \in Sessions : ResumeRead(r)
    \/ \E r \in Sessions, ok \in BOOLEAN : ResumePost(r, ok)
    \/ \E r \in Sessions : ResumeBackoff(r)
    \/ \E r \in Sessions, ok \in BOOLEAN : ResumeWrite(r, ok)
    \/ \E r \in Sessions, room \in BOOLEAN : ResumeFetch(r, room)
    \/ Expire

SpecCache == Init /\ [][NextCache]_vars

\* ------------------------------------------------------------ _merge_slots
\* Slots before the call ("" is None) and values of the argument's keys.
FilledOrNot == {"", "y"}
ExtractedValues == {"", " ", " x ", "<None>", "<7>"}

\* _merge_slots(slots) is called on a session whose slots are cur.  An empty
\* dict is falsy and returns at once (lines 737-738), which leaves the slots
\* as the loop over absent keys does.
ApplyMerge(cur, ext) ==
    /\ ~mrg.done
    /\ mrg' = [done |-> TRUE, cur |-> cur, ext |-> ext, out |-> MergeSlots(cur, ext)]
    /\ UNCHANGED outsideMerge

MergeReturn ==
    /\ mrg.done
    /\ mrg' = IdleMerge
    /\ UNCHANGED outsideMerge

NextMerge ==
    \/ \E cur \in [SlotKeys -> FilledOrNot], ext \in [SlotKeys -> ExtractedValues] :
          ApplyMerge(cur, ext)
    \/ MergeReturn

SpecMerge == Init /\ [][NextMerge]_vars

\* ---------------------------------------------------------- transcription
\* Transcripts are strings over a small alphabet: a lower-case letter, its
\* upper-case form, another letter and the blank.
Alphabet == {"a", "A", "b", " "}
Texts == UNION {[1..n -> Alphabet] : n \in 0..MaxText}

\* str.lower() and str.strip().
Lower(c) == IF c = "A" THEN "a" ELSE c
LowerText(t) == [i \in 1..Len(t) |-> Lower(t[i])]
RECURSIVE StripText(_)
StripText(t) ==
    IF t = <<>> THEN t
    ELSE IF Head(t) = " " THEN StripText(Tail(t))
    ELSE IF t[Len(t)] = " " THEN StripText(SubSeq(t, 1, Len(t) - 1))
    ELSE t

\* hallucination_patterns (lines 637-646, 675-684): a mixed-case phrase stands
\* for the eight of the list.
HallucinationPatterns == {<<"A", "b">>}
Contains(pat, t) ==
    \E i \in 1..(Len(t) - Len(pat) + 1) : SubSeq(t, i, i + Len(pat) - 1) = pat
\* `pattern.lower() in transcript.lower()` for some pattern.
IsHallucination(t) ==
    \E pat \in HallucinationPatterns : Contains(LowerText(pat), LowerText(t))
\* Lines 648-653 and 686-691.
FilterTranscript(t) == IF IsHallucination(t) THEN <<>> ELSE t

\* Lines 586 and 614: the extension of the original container.
ClientFormats == {"webm", "mp4"}
OriginalExt(fmt) == IF fmt \in {"mp4", "m4a"} THEN "m4a" ELSE "webm"
\* Lines 583-616: the file handed to Whisper.
WhisperExt(forceWebm, fmt, converted) ==
    IF forceWebm THEN OriginalExt(fmt)
    ELSE IF converted THEN "wav" ELSE OriginalExt(fmt)
\* Line 668.
FallbackExt(ext) == IF ext # "webm" THEN "webm" ELSE "ogg"

SttDone(rec, text) == [rec EXCEPT !.pc = "done", !.result = text]

\* Lines 578-629: the secondary provider is called.
CallWhisper(rec, forceWebm, fmt, converted) ==
    [rec EXCEPT !.pc = "whisper", !.ext = WhisperExt(forceWebm, fmt, converted),
                !.whisper_calls = @ + 1]

\* Lines 662-695, `except Exception`: the second attempt reads `ext`; while
\* `ext` is unbound that read raises UnboundLocalError inside the inner try,
\* which line 693 catches, and "" is returned without a call.
TranscribeHandler(rec) ==
    IF rec.ext = "unset"
    THEN SttDone(rec, <<>>)
    ELSE [rec EXCEPT !.pc = "retry", !.ext = FallbackExt(rec.ext),
                     !.whisper_calls = @ + 1]

\* Lines 538-556 (or 578-629 without DEEPGRAM_API_KEY): up to the first await.
TranscribeStart(key, forceWebm, fmt, converted) ==
    /\ stt.pc = "idle"
    /\ stt' = IF key THEN [stt EXCEPT !.pc = "deepgram"]
              ELSE CallWhisper(stt, forceWebm, fmt, converted)
    /\ UNCHANGED outsideTranscribe

DeepgramOutcomes == {"ok", "status", "exception"}
\* Lines 557-576: the POST to Deepgram returns or raises.
ResumeDeepgram(outcome, text, forceWebm, fmt, converted) ==
    /\ stt.pc = "deepgram"
    /\ stt' = IF outcome = "exception" THEN TranscribeHandler(stt)
              ELSE IF outcome = "ok" /\ StripText(text) # <<>>
              THEN SttDone([stt EXCEPT !.primary_text = TRUE], StripText(text))
              ELSE CallWhisper(stt, forceWebm, fmt, converted)
    /\ UNCHANGED outsideTranscribe

WhisperOutcomes == {"text", "timeout", "exception"}
\* Lines 621-655: the call to Whisper under wait_for returns, times out or raises.
ResumeWhisper(outcome, text) ==
    /\ stt.pc = "whisper"
    /\ stt' = IF outcome = "text" THEN SttDone(stt, FilterTranscript(text))
              ELSE IF outcome = "timeout" THEN SttDone(stt, <<>>)
              ELSE TranscribeHandler(stt)
    /\ UNCHANGED outsideTranscribe

\* Lines 670-695: the second call to Whisper returns or raises.
ResumeRetry(ok, text) ==
    /\ stt.pc = "retry"
    /\ stt' = SttDone(stt, IF ok THEN FilterTranscript(text) ELSE <<>>)
    /\ UNCHANGED outsideTranscribe

\* The caller has the result.
TranscribeReturn ==
    /\ stt.pc = "done"
    /\ stt' = IdleStt
    /\ UNCHANGED outsideTranscribe

NextTranscribe ==
    \/ \E key, forceWebm, converted \in BOOLEAN, fmt \in ClientFormats :
          TranscribeStart(key, forceWebm, fmt, converted)
    \/ \E outcome \in DeepgramOutcomes, text \in Texts,
          forceWebm, converted \in BOOLEAN, fmt \in ClientFormats :
          ResumeDeepgram(outcome, text, forceWebm, fmt, converted)
    \/ \E outcome \in WhisperOutcomes, text \in Texts : ResumeWhisper(outcome, text)
    \/ \E ok \in BOOLEAN, text \in Texts : ResumeRetry(ok, text)
    \/ TranscribeReturn

SpecTranscribe == Init /\ [][NextTranscribe]_vars

\* ------------------------------------------- a caller with one more frame
InitForce == InitWith(MaxFrames + 1, MaxForces)

SpecForce == InitForce /\ [][Next]_vars

\* ------------------------------------------------------------- barge-in
\* process_audio_chunk entered while is_speaking is set, lines 155-164, as a
\* receive loop without the half-duplex check of line 1102 calls it.
BargeInChunk(size) ==
    /\ ws_loop = "running"
    /\ inv[WS].pc = "none"
    /\ is_speaking
    /\ frames_left > 0
    /\ frames_left' = frames_left - 1
    /\ process_audio_chunk(size)
    /\ UNCHANGED <<forces_left, outsideSession>>

NextBargeIn ==
    \/ Next
    \/ \E size \in ChunkSizes : BargeInChunk(size)

SpecBargeIn == Init /\ [][NextBargeIn]_vars

\* ------------------------------------------------ voice-activity detector
\* speech_duration_ms and silence_duration_ms the detector is constructed
\* with: one and three frames, two and three frames.
SpeechDurations == {30, 100}
SilenceDurations == {60, 100}
\* int(duration_ms / frame_duration_ms), lines 48-49.
FramesRequired(duration_ms) == duration_ms \div FrameDurationMs

\* A frame is one _detect_speech takes for speech, one it does not, or one
\* _bytes_to_float gives no samples for (no bytes, or an odd number of them).
FrameKinds == {"speech", "quiet", "empty"}

\* VoiceActivityDetector.__init__, lines 39-62.
VadInit(speech_ms, silence_ms) ==
    /\ ~vad.made
    /\ vad' = [NoVad EXCEPT !.made = TRUE,
                            !.speech_frames_required = FramesRequired(speech_ms),
                            !.silence_frames_required = FramesRequired(silence_ms)]
    /\ UNCHANGED <<ttm, outsideVad>>

\* Faulty variant of the state machine below: a frame of the other kind does
\* not end the run.
UpdateStateKeepsRuns(v, is_speech) ==
    IF is_speech
    THEN [v EXCEPT !.speech_frames = @ + 1,
                   !.is_speaking = IF v.speech_frames + 1 >= v.speech_frames_required
                                   THEN TRUE ELSE @]
    ELSE [v EXCEPT !.silence_frames = @ + 1,
                   !.is_speaking = IF v.silence_frames + 1 >= v.silence_frames_required
                                   THEN FALSE ELSE @]

\* _update_state, lines 130-149.
UpdateState(v, is_speech) ==
    IF is_speech
    THEN [v EXCEPT !.speech_frames = @ + 1, !.silence_frames = 0,
                   !.is_speaking = IF v.speech_frames + 1 >= v.speech_frames_required
                                   THEN TRUE ELSE @]
    ELSE [v EXCEPT !.silence_frames = @ + 1, !.speech_frames = 0,
                   !.is_speaking = IF v.silence_frames + 1 >= v.silence_frames_required
                                   THEN FALSE ELSE @]

\* process_frame, lines 72-97: the detector after a frame of the kind.
AfterFrame(v, kind) ==
    LET w == [v EXCEPT !.frames = Append(@, kind)] IN
    IF kind = "empty" THEN w ELSE UpdateState(w, kind = "speech")

process_frame(kind) ==
    /\ vad.made
    /\ Len(vad.frames) < MaxVadFrames
    /\ vad' = AfterFrame(vad, kind)
    /\ UNCHANGED <<ttm, outsideVad>>

NextVad ==
    \/ \E speech_ms \in SpeechDurations, silence_ms \in SilenceDurations :
          VadInit(speech_ms, silence_ms)
    \/ \E kind \in FrameKinds : process_frame(kind)

SpecVad == Init /\ [][NextVad]_vars

\* The frames of the kind that end the sequence with no frame of the other
\* kind among them; frames without samples are left out.
RECURSIVE TrailingRun(_, _)
TrailingRun(frames, kind) ==
    IF frames = <<>> THEN 0
    ELSE LET last == frames[Len(frames)]
             rest == SubSeq(frames, 1, Len(frames) - 1)
         IN IF last = "empty" THEN TrailingRun(rest, kind)
            ELSE IF last = kind THEN 1 + TrailingRun(rest, kind)
            ELSE 0

\* ---------------------------------------------------- turn-taking manager
\* The timestamps of successive frames are a frame or 600 ms apart.
TimeSteps == {30, 600}

\* process_user_audio, lines 243-276, on a manager m: the detector's state
\* after the frame is is_speech, the frame's timestamp is ts.
AfterUserAudio(m, is_speech, ts) ==
    IF is_speech
    THEN LET newTurn == m.current_speaker # "user"
             ev == IF ~newTurn THEN "none"
                   ELSE IF m.current_speaker = "ai"
                           /\ m.turn_duration < InterruptionThresholdMs
                        THEN "interruption"
                   ELSE "turn_start"
             start == IF newTurn THEN ts ELSE m.turn_start_time
         IN [m EXCEPT !.current_speaker = "user",
                      !.turn_start_time = start,
                      !.last_speech_time = ts,
                      !.turn_duration = ts - start,
                      !.timestamp_ms = ts,
                      !.event = ev,
                      !.turn_open = IF newTurn THEN TRUE ELSE @]
    ELSE IF m.current_speaker = "user" /\ ts - m.last_speech_time > MaxPauseMs
    THEN IF m.turn_duration >= MinTurnDurationMs
         THEN [m EXCEPT !.current_speaker = "none", !.timestamp_ms = ts,
                        !.event = "turn_end", !.turn_open = FALSE]
         ELSE [m EXCEPT !.current_speaker = "none", !.timestamp_ms = ts,
                        !.event = "none"]
    ELSE [m EXCEPT !.timestamp_ms = ts, !.event = "none"]

\* process_user_audio(audio_frame, timestamp_ms), lines 239-276.
process_user_audio(kind, step) ==
    /\ vad.made
    /\ Len(vad.frames) < MaxTurnFrames
    /\ vad' = AfterFrame(vad, kind)
    /\ ttm' = AfterUserAudio(ttm, vad'.is_speaking, ttm.timestamp_ms + step)
    /\ UNCHANGED outsideVad

\* signal_ai_speaking(is_speaking), lines 278-286.
signal_ai_speaking(speaking) ==
    /\ vad.made
    /\ ttm' = IF speaking
              THEN [ttm EXCEPT !.current_speaker = "ai", !.turn_start_time = 0]
              ELSE IF ttm.current_speaker = "ai"
              THEN [ttm EXCEPT !.current_speaker = "none"]
              ELSE ttm
    /\ UNCHANGED <<vad, outsideVad>>

NextTurn ==
    \/ \E speech_ms \in SpeechDurations, silence_ms \in SilenceDurations :
          VadInit(speech_ms, silence_ms)
    \/ \E kind \in FrameKinds, step \in TimeSteps : process_user_audio(kind, step)
    \/ \E speaking \in BOOLEAN : signal_ai_speaking(speaking)

SpecTurn == Init /\ [][NextTurn]_vars

\* ------------------------------------------- the history over many turns
\* s[-n:] of a Python list.
LastN(s, n) == IF Len(s) <= n THEN s ELSE SubSeq(s, Len(s) - n + 1, Len(s))

\* Line 451: a turn with a valid transcript appends the user's entry.
HistoryUser ==
    /\ hst.pc = "idle"
    /\ Len(hst.history) + 2 <= MaxEntries
    /\ hst' = [hst EXCEPT !.pc = "intent",
                          !.history = Append(@, "user"), !.messages = <<>>]
    /\ UNCHANGED outsideHistory

\* Lines 462-475 and 489: the booking flow words the reply itself and
\* appends it.
HistoryBooking ==
    /\ hst.pc = "intent"
    /\ hst' = [hst EXCEPT !.pc = "idle", !.history = Append(@, "assistant")]
    /\ UNCHANGED outsideHistory

\* generate_response, lines 837-842: the messages are the system prompt and
\* the last HistoryWindow entries; the completion is awaited.
HistoryGenerate ==
    /\ hst.pc = "intent"
    /\ hst' = [hst EXCEPT !.pc = "generate",
                          !.messages = LastN(hst.history, HistoryWindow)]
    /\ UNCHANGED outsideHistory

\* Lines 476-489: the completion returns; one without content raises at line
\* 483 and nothing is appended.
HistoryReply(c) ==
    /\ hst.pc = "generate"
    /\ hst' = [hst EXCEPT !.pc = "idle",
                          !.history = IF c = "none" THEN @ ELSE Append(@, "assistant")]
    /\ UNCHANGED outsideHistory

NextHistory ==
    \/ HistoryUser
    \/ HistoryBooking
    \/ HistoryGenerate
    \/ \E c \in Completions : HistoryReply(c)

SpecHistory == Init /\ [][NextHistory]_vars

\* ------------------------------------------------- the session registry
\* active_sessions[session_id] = session and del active_sessions[session_id];
\* a session object is named by the connection it was made for.
Registered(sessions, sid, c) ==
    [s \in DOMAIN sessions \cup {sid} |-> IF s = sid THEN c ELSE sessions[s]]
Removed(sessions, sid) == [s \in DOMAIN sessions \ {sid} |-> sessions[s]]

\* Lines 1041-1045: the handler accepts, makes the session and registers it.
Connect(c, sid) ==
    /\ reg.conn[c].state = "none"
    /\ reg' = [reg EXCEPT !.conn[c] = [state |-> "open", session_id |-> sid],
                          !.active_sessions = Registered(@, sid, c)]
    /\ UNCHANGED outsideRegistry

\* Lines 1109-1112: the finally block of the handler.
HandlerExit(c) ==
    reg' = [reg EXCEPT !.conn[c].state = "done",
                       !.active_sessions = Removed(@, reg.conn[c].session_id)]

\* Lines 1090-1092: an `end` message breaks out of the receive loop.
ConnEnd(c) ==
    /\ reg.conn[c].state = "open"
    /\ HandlerExit(c)
    /\ UNCHANGED outsideRegistry

\* Lines 1105-1108: receive raises, because the client went away or because
\* end_session closed the websocket.
ConnDisconnect(c) ==
    /\ reg.conn[c].state \in {"open", "closed"}
    /\ HandlerExit(c)
    /\ UNCHANGED outsideRegistry

\* end_session, lines 1133-1137: an unknown id is answered 404; otherwise the
\* close of the registered session's websocket is awaited.
EndSessionStart(sid) ==
    /\ reg.end_session[sid] = 0
    /\ sid \in DOMAIN reg.active_sessions
    /\ reg.conn[reg.active_sessions[sid]].state = "open"
    /\ reg' = [reg EXCEPT !.conn[reg.active_sessions[sid]].state = "closed",
                          !.end_session[sid] = reg.active_sessions[sid]]
    /\ UNCHANGED outsideRegistry

\* end_session, lines 1138-1140: the close returns and the entry of the id is
\* deleted (KeyError when the handler's finally block was there first).
EndSessionFinish(sid) ==
    /\ reg.end_session[sid] # 0
    /\ reg' = [reg EXCEPT !.end_session[sid] = 0,
                          !.active_sessions = Removed(@, sid)]
    /\ UNCHANGED outsideRegistry

NextRegistry ==
    \/ \E c \in Conns, sid \in SessionIds : Connect(c, sid)
    \/ \E c \in Conns : ConnEnd(c)
    \/ \E c \in Conns : ConnDisconnect(c)
    \/ \E sid \in SessionIds : EndSessionStart(sid)
    \/ \E sid \in SessionIds : EndSessionFinish(sid)

SpecRegistry == Init /\ [][NextRegistry]_vars

\* ------------------------------------------------- the telephony pipeline
\* How an awaited helper of process_audio ends: with a value, with None or
\* an empty text, with an exception, or with the cancellation of the task.
AwaitOutcomes == {"value", "nothing", "raise", "cancel"}

\* What the caller of process_audio gets when the flush ends at an await that
\* ended this way: `except Exception` turns an exception into None, a
\* CancelledError passes through it.
ResultOf(out) == IF out = "cancel" THEN "cancelled" ELSE "None"

\* A call returns at once (lines 81-83, 88-89, 145).
Returned(sid, why) ==
    [pc |-> "done", session_id |-> sid, result |-> "None", why |-> why]

\* Faulty variant of the exit below: the flag is left as it is.
AfterExitKeepsFlag(v, k, result) ==
    [v EXCEPT !.call[k].pc = "done", !.call[k].result = result,
              !.call[k].why = "flushed"]

\* Lines 142-145: every way out of the try block passes the finally block.
AfterExit(v, k, result) ==
    [v EXCEPT !.processing = FALSE,
              !.call[k].pc = "done", !.call[k].result = result,
              !.call[k].why = "flushed"]

\* twilio.py lines 110-127 and initialize_session, lines 53-75: the `start`
\* event of the stream.
initialize_session ==
    /\ ~vps.started
    /\ vps' = [vps EXCEPT !.started = TRUE, !.sessions = {"stream"},
                          !.audio_buffer = 0, !.processing = FALSE,
                          !.conversation_history = <<"system">>]
    /\ UNCHANGED outsidePipeline

\* cleanup_session, lines 270-275.
cleanup_session ==
    /\ "stream" \in vps.sessions
    /\ vps' = [vps EXCEPT !.sessions = {}]
    /\ UNCHANGED outsidePipeline

\* process_audio, lines 77-109: from the call to its return or to the await
\* of _transcribe_audio.
process_audio(k, sid, size) ==
    /\ vps.call[k].pc = "none"
    /\ vps' =
         IF sid \notin vps.sessions
         THEN [vps EXCEPT !.call[k] = Returned(sid, "unknown")]
         ELSE IF vps.processing
         THEN [vps EXCEPT !.call[k] = Returned(sid, "busy")]
         ELSE IF vps.audio_buffer + size >= PipelineMinBytes
         THEN [vps EXCEPT !.processing = TRUE, !.audio_buffer = 0,
                          !.call[k] = [NoCall EXCEPT !.pc = "transcribe",
                                                     !.session_id = sid]]
         ELSE [vps EXCEPT !.audio_buffer = @ + size,
                          !.call[k] = Returned(sid, "short")]
    /\ UNCHANGED outsidePipeline

\* Lines 109-121: _transcribe_audio returns; a transcript is appended.
PipelineTranscribed(k, out) ==
    /\ vps.call[k].pc = "transcribe"
    /\ vps' = IF out = "value"
              THEN [vps EXCEPT !.call[k].pc = "generate",
                               !.conversation_history = Append(@, "user")]
              ELSE AfterExit(vps, k, ResultOf(out))
    /\ UNCHANGED outsidePipeline

\* Lines 121-133: _generate_response returns; a reply is appended.
PipelineGenerated(k, out) ==
    /\ vps.call[k].pc = "generate"
    /\ vps' = IF out = "value"
              THEN [vps EXCEPT !.call[k].pc = "synth",
                               !.conversation_history = Append(@, "assistant")]
              ELSE AfterExit(vps, k, ResultOf(out))
    /\ UNCHANGED outsidePipeline

\* Lines 133-145: _text_to_speech returns; the audio is returned.
PipelineSynthesized(k, out) ==
    /\ vps.call[k].pc = "synth"
    /\ vps' = AfterExit(vps, k, IF out = "value" THEN "audio" ELSE ResultOf(out))
    /\ UNCHANGED outsidePipeline

NextPipeline ==
    \/ initialize_session
    \/ cleanup_session
    \/ \E k \in PipelineCalls, sid \in PipelineIds, size \in PayloadSizes :
         process_audio(k, sid, size)
    \/ \E k \in PipelineCalls, out \in AwaitOutcomes : PipelineTranscribed(k, out)
    \/ \E k \in PipelineCalls, out \in AwaitOutcomes : PipelineGenerated(k, out)
    \/ \E k \in PipelineCalls, out \in AwaitOutcomes : PipelineSynthesized(k, out)

SpecPipeline == Init /\ [][NextPipeline]_vars

\* The calls inside a transcribe, generate, synthesize sequence.
InFlight == {k \in PipelineCalls :
                vps.call[k].pc \in {"transcribe", "generate", "synth"}}

\* ------------------------------------------------------- well-formedness
TypeOK ==
    /\ is_processing \in BOOLEAN /\ turn_locked \in BOOLEAN
    /\ is_speaking \in BOOLEAN /\ force_next \in BOOLEAN
    /\ total_buffer_bytes = SumSeq(audio_buffer)
    /\ speech_elapsed \in -1..HardMaxSeen
    /\ last_speech_end \in -1..QuietSeen
    /\ failed_transcription_count \in 0..(MaxFailedTranscriptions + Cardinality(Owners))
    /\ Len(conversation_history) <= MaxHistory + Cardinality(Owners)
    /\ debounce_task.state \in {"none", "sleep", "run"}
    /\ (debounce_task.state = "run") = (inv[DEB].pc # "none")
    /\ \A i \in ForceIds : inv[i].pc # "none" => force_task[i].kind # "none"
    /\ ws_loop \in {"running", "ended"}
    /\ stt.pc \in {"idle", "deepgram", "whisper", "retry", "done"}
    /\ stt.result \in Texts
    /\ mrg.done \in BOOLEAN
    /\ hst.pc \in {"idle", "intent", "generate"}
    /\ vad.made \in BOOLEAN /\ vad.is_speaking \in BOOLEAN
    /\ Len(vad.frames) <= MaxVadFrames
    /\ ttm.current_speaker \in {"none", "user", "ai"}
    /\ ttm.event \in {"none", "turn_start", "turn_end", "interruption"}
    /\ DOMAIN reg.active_sessions \subseteq SessionIds
    /\ vps.processing \in BOOLEAN /\ vps.sessions \subseteq PipelineIds
    /\ vps.audio_buffer \in 0..PipelineMinBytes
    /\ \A s \in DOMAIN reg.active_sessions : reg.active_sessions[s] \in Conns

\* -------------------------------------------------------------- properties
\* A task is inside a call to a provider that will return to it.
ProviderCall(o) ==
    /\ inv[o].pc \in {"transcribe", "intent", "generate", "synth"}
    /\ ~inv[o].cancel

\* C1: turn-lock mutual exclusion.  At every instant at most one of
\* transcribe_audio, analyze_intent / generate_response and synthesize_speech
\* is running for the session.
C1_TurnLockMutualExclusion ==
    Cardinality({o \in Owners : ProviderCall(o)}) <= 1

\* C2: exactly one reply per flushed utterance.  A turn whose buffer was handed
\* to transcription and that got as far as a reply text has sent exactly one
\* tts_url message when it goes back to `listening`.
C2_ExactlyOneReply ==
    \A o \in Owners :
        (inv[o].stt /\ inv[o].kind = "reply" /\ inv[o].pc \in {"listening", "sleep"})
            => inv[o].replies = 1

\* C3: barge-in.  Whenever a binary frame arrives while is_speaking is set,
\* `interrupted` is emitted, is_speaking and turn_locked are cleared and the
\* buffer restarts with exactly that frame.
C3_BargeIn ==
    [][\A size \in ChunkSizes :
         (ReceiveAudio(size) /\ is_speaking)
            => /\ last_status' = "interrupted"
               /\ ~is_speaking' /\ ~turn_locked'
               /\ audio_buffer' = <<size>>
               /\ total_buffer_bytes' = size]_vars

C6_SubThresholdCleared ==
    [][(DebounceFire /\ ~force_next /\ total_buffer_bytes < MinBytesTrigger)
          => /\ inv'[DEB].pc = "none"
             /\ audio_buffer' = <<>>
             /\ total_buffer_bytes' = 0
             /\ speech_elapsed' = -1]_vars

\* C7: hard maximum turn duration.  The frame that forces a flush at the
\* 3.0 s ceiling belongs to a run of frames with gaps shorter than the
\* debounce period: the timer started by the frame before it is still pending.
C7_HardMaxCurrentTurn ==
    [][\A size \in ChunkSizes :
         (ReceiveAudio(size) /\ ~force_next /\ inv'[WS].pc = "thinking")
            => debounce_task.state = "sleep"]_vars

\* C8: failed-transcription policy.  The third consecutive failed
\* transcription speaks exactly one clarification, and no turn ends with the
\* counter above 2.
C8_FailedTranscriptionPolicy ==
    /\ \A o \in Owners :
          (IsClarify(inv[o].kind) /\ inv[o].pc \in {"listening", "sleep"})
             => inv[o].replies = 1
    /\ (\A o \in Owners : inv[o].pc = "none")
          => failed_transcription_count < MaxFailedTranscriptions

\* C9: booking confirmation if and only if complete.  In every turn the reply
\* is the confirmation exactly when all four slots are non-empty after the
\* merge.
C9_ConfirmationIffComplete ==
    \A o \in Owners :
        (inv[o].kind = "reply" /\ inv[o].pc = "speaking")
            => ((inv[o].reply = "confirmation") <=> inv[o].full)

\* C10: synthesis cache.  A request that finds the phrase in the in-memory
\* table, and a request or a retry of one that finds a complete cache file
\* younger than 24 hours, makes no call to the provider at that lookup.
C10_ServedFromCache ==
    [][\A r \in Sessions :
         (\/ StartRequest(r) /\ (memory_cache \/ cache_file = "fresh")
          \/ ResumeBackoff(r) /\ cache_file = "fresh")
            => (provider_calls' = provider_calls /\ req'[r].pc \in {"idle", "read"})]_vars

\* A request has been answered from the cache file another request wrote.
C10_Witness ==
    /\ provider_calls = 1
    /\ ~window_over
    /\ \E r \in Sessions : req[r].served = "file" /\ req[r].pc = "idle"

\* C10, provider invoked at most once: inside the 24-hour retention window
\* the provider is called at most once for one text, voice id and settings.
C10_ProviderAtMostOnce ==
    ~window_over => provider_calls <= 1

\* C11: synthesis failure fallback.  When synthesize_speech returns to a turn
\* that is speaking its reply, something is sent to the caller for it: the
\* tts_url of the reply or of a substituted fallback utterance.
C11_SynthesisFallback ==
    [][\A o \in Owners :
         (inv[o].pc = "synth" /\ inv[o].kind = "reply"
             /\ inv'[o].pc \in {"send_tts", "listening"})
            => inv'[o].replies = inv[o].replies + 1]_vars

\* C12: transcription never raises and falls back.  transcribe_audio returns a
\* text or the empty result; when the primary provider gave no non-empty text
\* the secondary provider has been called, and a text of the primary provider
\* is returned as it is.
C12_TranscriptionFallback ==
    stt.pc = "done" =>
        /\ stt.result \in Texts
        /\ stt.primary_text => (stt.result # <<>> /\ stt.whisper_calls = 0)
        /\ ~stt.primary_text => stt.whisper_calls >= 1

\* C20: hallucination filter.  No text that transcribe_audio returns contains
\* a hallucination pattern, in any letter case.
C20_HallucinationFilter ==
    stt.pc = "done" => ~IsHallucination(stt.result)

\* C13: force control message.  A `force` message leaves no debounce timer
\* pending, and the processing it starts hands whatever audio is buffered to
\* transcribe_audio, whatever its size and whatever the noise check says.
C13_ForceProcessesBuffer ==
    [][\A i \in ForceIds :
         /\ ReceiveForce(i) => ~DebouncePending'
         /\ (ResumeThinking(i) /\ audio_buffer # <<>>)
               => (inv'[i].pc = "transcribe" /\ inv'[i].stt)]_vars

\* C14: protocol errors are ignored.  A text frame that is not JSON, JSON that
\* is no object, or an object without a known type leaves the receive loop
\* running and the session as it was.
C14_ProtocolErrorsIgnored ==
    [][\A msg \in MalformedMessages \cup IgnoredMessages :
         (ReceiveMalformed(msg) \/ ReceiveIgnored(msg))
            => (ws_loop' = "running" /\ UNCHANGED sessionVars)]_vars

\* C15: session teardown.  Once the receive loop of a session has ended, no
\* call to transcribe_audio, analyze_intent, generate_response or
\* synthesize_speech is started for it.
C15_TeardownStopsCalls ==
    [][ws_loop = "ended" =>
         \A o \in Owners :
            ProviderCall(o)' => (ProviderCall(o) /\ inv'[o].pc = inv[o].pc)]_vars

\* C16: debounce scenario.  When the debounce timer fires on the 1.5 KB the
\* caller has sent, 600 ms after the last frame, the buffer is flushed: the
\* turn starts and hands those bytes to transcribe_audio.
C16_DebounceScenario ==
    [][(DebounceFire /\ total_buffer_bytes = ScenarioBytes)
          => inv'[DEB].pc = "thinking"]_vars

\* C17: booking slot reset.  A turn that renders the confirmation leaves the
\* four slots empty and the booking flow idle, and so does a turn whose
\* intent is not `appointment` while a booking is in progress.
C17_BookingSlotReset ==
    [][\A o \in Owners, intent \in Intents, ext \in Extractions :
         ResumeIntent(o, intent, ext) =>
            /\ inv'[o].reply = "confirmation"
                  => (slots' = NoSlots /\ ~booking_in_progress')
            /\ (intent # "appointment" /\ booking_in_progress)
                  => (slots' = NoSlots /\ ~booking_in_progress')]_vars

\* C18: slot merge keeps filled slots.  After _merge_slots a slot whose
\* extracted value is None, missing, no string, empty or blank is what it was
\* before, and a slot whose extracted value has text holds that text stripped.
C18_MergeKeepsFilledSlots ==
    mrg.done =>
        \A k \in SlotKeys :
            /\ mrg.ext[k] \in {"", " ", "<None>", "<7>"} => mrg.out[k] = mrg.cur[k]
            /\ mrg.ext[k] = " x " => mrg.out[k] = "x"

\* A filled slot met a blank extraction while another slot was replaced.
C18_Witness ==
    /\ mrg.done
    /\ mrg.cur["date"] = "y" /\ mrg.ext["date"] = " " /\ mrg.out["date"] = "y"
    /\ mrg.cur["time"] = "y" /\ mrg.ext["time"] = " x " /\ mrg.out["time"] = "x"
    /\ mrg.ext["name"] = "<7>" /\ mrg.ext["phone"] = "<None>"

\* C19: playable audio reference.  Whenever synthesize_speech returns a URL
\* to the orchestrator, from the in-memory table or after the service
\* answered, the cache file it names is complete and younger than 24 hours.
C19_PlayableReference ==
    [][\A r \in Sessions :
         (\/ StartRequest(r) /\ memory_cache
          \/ \E room \in BOOLEAN : ResumeFetch(r, room))
            => cache_file' = "fresh"]_vars

\* C21: conversation history is capped.  The session's conversation history
\* never holds more than the 20 most recent entries, and the messages sent to
\* the LLM never hold more than 20 history entries.
C21_HistoryCapped ==
    /\ Len(hst.history) <= HistoryWindow
    /\ Len(hst.messages) <= HistoryWindow

C24_DebounceRestart ==
    [][/\ \A size \in ChunkSizes :
            (ReceiveAudio(size) /\ audio_buffer' = Append(audio_buffer, size))
               => /\ inv'[DEB].pc = "none"
                  /\ \/ debounce_task' = [state |-> "sleep", lo |-> Lo(DebounceMs),
                                                             hi |-> Hi(DebounceMs)]
                     \/ debounce_task' = NoTask /\ inv'[WS].pc = "thinking"
       /\ (DebounceFire /\ inv'[DEB].pc = "thinking")
            => last_speech_end >= Lo(DebounceMs)]_vars

\* The debounce task starts a flush of two chunks, the second of which came
\* while the timer of the first was pending.
C24_Witness ==
    /\ inv[DEB].pc = "thinking"
    /\ Len(audio_buffer) = 2
    /\ last_speech_end = Lo(DebounceMs)
    /\ speech_elapsed = Lo(DebounceMs) + 1

\* C25: hysteresis of the voice-activity detector.  is_speaking becomes True
\* only on a speech frame that completes a run of at least
\* speech_frames_required speech frames, and False only on a non-speech frame
\* that completes a run of at least silence_frames_required non-speech
\* frames; a frame without samples changes neither the state nor a counter.
C25_VadHysteresis ==
    [][\A kind \in FrameKinds :
         process_frame(kind) =>
            /\ (~vad.is_speaking /\ vad'.is_speaking)
                  => /\ kind = "speech"
                     /\ TrailingRun(vad'.frames, "speech") >= vad.speech_frames_required
            /\ (vad.is_speaking /\ ~vad'.is_speaking)
                  => /\ kind = "quiet"
                     /\ TrailingRun(vad'.frames, "quiet") >= vad.silence_frames_required
            /\ kind = "empty"
                  => /\ vad'.is_speaking = vad.is_speaking
                     /\ vad'.speech_frames = vad.speech_frames
                     /\ vad'.silence_frames = vad.silence_frames]_vars

\* A detector that needs three frames either way has gone to speaking and
\* back, with a frame without samples inside the run of speech.
C25_Witness ==
    /\ vad.speech_frames_required = 3 /\ vad.silence_frames_required = 3
    /\ vad.frames = <<"speech", "empty", "speech", "speech", "quiet", "quiet", "quiet">>
    /\ ~vad.is_speaking

\* C26: interruption event of the turn detector.  A frame on which the
\* detector declares the caller speaking gives `interruption` when the agent
\* is the current speaker and `turn_start` when nobody is, and a `turn_end`
\* comes only after a turn_start or interruption with no turn_end since.
C26_InterruptionEvent ==
    [][\A kind \in FrameKinds, step \in TimeSteps :
         process_user_audio(kind, step) =>
            /\ (ttm.current_speaker = "ai" /\ vad'.is_speaking)
                  => ttm'.event = "interruption"
            /\ (ttm.current_speaker = "none" /\ vad'.is_speaking)
                  => ttm'.event = "turn_start"
            /\ ttm'.event = "turn_end" => ttm.turn_open]_vars

\* C27: the turn lock is always released.  When no task of the session is
\* running or pending any more (every flush that was started has come to
\* its end), turn_locked, is_processing and is_speaking are all False, so
\* the chunks that follow are buffered.
C27_TurnLockReleased ==
    (/\ \A o \in Owners : inv[o].pc = "none"
     /\ debounce_task.state = "none"
     /\ \A i \in ForceIds : force_task[i].kind = "none")
        => (~turn_locked /\ ~is_processing /\ ~is_speaking)

\* C28: a force request is consumed by one flush.  Whenever the session is
\* idle (no flag of a turn set, no task inside process_buffered_audio, no
\* task of a `force` message pending), force_next is False; and the debounce
\* task never fires nor starts its flush with force_next set.
C28_ForceConsumed ==
    [][/\ Quiescent' => ~force_next'
       /\ (DebounceFire \/ ResumeThinking(DEB)) => ~force_next]_vars

\* C29: the session registry matches the live connections.  Every connection
\* whose handler is in its receive loop has an entry in active_sessions under
\* its session id, and the entry is the session made for that connection.
C29_RegistryMatchesLive ==
    \A c \in Conns :
        reg.conn[c].state = "open" =>
            /\ reg.conn[c].session_id \in DOMAIN reg.active_sessions
            /\ reg.active_sessions[reg.conn[c].session_id] = c

\* C30: the processing flag of the telephony pipeline.  The flag is set
\* exactly while a call is inside its transcribe, generate, synthesize
\* sequence, and at most one call is; a call made while the flag is set, or
\* for a session id that is no key of self.sessions, returns None and leaves
\* the buffer, the history, the flag and the sessions as they were.
C30_ProcessingFlag ==
    /\ [](Cardinality(InFlight) <= 1 /\ (vps.processing <=> InFlight # {}))
    /\ [][\A k \in PipelineCalls :
            (/\ vps.call[k].pc = "none"
             /\ vps'.call[k].pc # "none"
             /\ (vps.processing \/ vps'.call[k].session_id \notin vps.sessions))
                => /\ vps'.call[k].pc = "done"
                   /\ vps'.call[k].result = "None"
                   /\ vps' = [vps EXCEPT !.call[k] = vps'.call[k]]]_vars

\* A call was turned away because a flush is in flight, the flush goes on,
\* and a call for the unknown id has returned.
C30_Witness ==
    /\ \E k \in PipelineCalls : vps.call[k].why = "busy"
    /\ \E k \in PipelineCalls : vps.call[k].why = "unknown"
    /\ \E k \in InFlight : vps.call[k].pc = "synth"
    /\ vps.processing

====
